---- MODULE Spec2Model ----
(***************************************************************************)
(* use-shared-state: a key-addressed value shared between React observers, *)
(* with an in-memory map (sharedState), a subscriber-facing cache and      *)
(* registry (lite SWR), a localStorage adapter, a hydration gate and the   *)
(* storage-event handler that reconciles browser tabs.                     *)
(***************************************************************************)
EXTENDS Integers, Sequences, FiniteSets, TLC

(***************************************************************************)
(* Bounds of the model.                                                    *)
(***************************************************************************)
MaxInbox == 1
MaxCallbacks == 4
\* the largest number a JSON text denotes
MaxNumber == 3

(***************************************************************************)
(* JavaScript values. Every value is a record of one shape so that any two *)
(* values can be compared.                                                 *)
(***************************************************************************)
Undefined == [t |-> "undefined", n |-> 0]
Null == [t |-> "null", n |-> 0]
EmptyObject == [t |-> "object", n |-> 0]
Num(i) == [t |-> "number", n |-> i]
False == [t |-> "boolean", n |-> 0]
EmptyString == [t |-> "string", n |-> 0]
EmptyArray == [t |-> "array", n |-> 0]
\* an object that refers to itself: JSON.stringify raises on it
Circular == [t |-> "circular", n |-> 0]
\* the numbers the observers work with
Nums == {Num(0), Num(1)}
Val == {Undefined, Null, False, EmptyString, EmptyArray, EmptyObject} \cup Nums

(***************************************************************************)
(* Keys and texts. A key is the sequence of its characters.                *)
(***************************************************************************)
PERSISTENT_KEY_PREFIX == <<"@">>
LOCALSTORAGE_PREFIX == <<"s", "h", "a", "r", "e", "d", "@">>
KeyA == <<"a">>
KeyP == <<"@", "p">>
Keys == {KeyA, KeyP}
NoKey == <<>>

\* what JSON.stringify(undefined) returns: the value undefined, not a text
JsUndefined == "<undefined>"
\* getItem of a missing record, and the newValue of an event that has none
JsNull == "<null>"

Put(f, k, v) == [x \in (DOMAIN f) \cup {k} |-> IF x = k THEN v ELSE f[x]]
Del(f, k) == [x \in (DOMAIN f) \ {k} |-> f[x]]
EmptyMap == [x \in {} |-> Undefined]
MapGet(f, k) == IF k \in DOMAIN f THEN f[k] ELSE Undefined

StartsWith(s, p) == Len(s) >= Len(p) /\ SubSeq(s, 1, Len(p)) = p
Slice(s, i) == SubSeq(s, i + 1, Len(s))

isPersistentKey(key) == StartsWith(key, PERSISTENT_KEY_PREFIX)

\* a namespacing that keeps the sentinel of the key
getLocalStorageKeyNoSlice(key) ==
    IF isPersistentKey(key) THEN LOCALSTORAGE_PREFIX \o key ELSE key

getLocalStorageKey(key) ==
    IF isPersistentKey(key) THEN LOCALSTORAGE_PREFIX \o Slice(key, 1) ELSE key

\* JSON.stringify never throws on the values of Val; on Circular it does, and
\* the catch returns "null"
safeJsonStringify(value) ==
    CASE value.t = "number" -> ToString(value.n)
      [] value.t = "circular" -> "null"
      [] value.t = "null" -> "null"
      [] value.t = "object" -> "{}"
      [] value.t = "array" -> "[]"
      [] value.t = "boolean" -> "false"
      [] value.t = "string" -> "\"\""
      [] OTHER -> JsUndefined

NumTexts == {ToString(v.n) : v \in Nums}
\* the numbers JSON.parse reads
Numbers == {Num(i) : i \in 0..MaxNumber}
NumberTexts == {ToString(v.n) : v \in Numbers}

\* a parse that falls back to null, as safeJsonStringify falls back to "null"
safeJsonParseNullOnError(text) ==
    IF text = "null" THEN Null
    ELSE IF text = "{}" THEN EmptyObject
    ELSE IF text = "[]" THEN EmptyArray
    ELSE IF text = "false" THEN False
    ELSE IF text = "\"\"" THEN EmptyString
    ELSE IF text \in NumberTexts
         THEN CHOOSE v \in Numbers : ToString(v.n) = text
    ELSE Null

\* JSON.parse; a text that is no JSON raises, which yields undefined
safeJsonParse(text) ==
    IF text = "null" THEN Null
    ELSE IF text = "{}" THEN EmptyObject
    ELSE IF text = "[]" THEN EmptyArray
    ELSE IF text = "false" THEN False
    ELSE IF text = "\"\"" THEN EmptyString
    ELSE IF text \in NumberTexts
         THEN CHOOSE v \in Numbers : ToString(v.n) = text
    ELSE Undefined

\* a JavaScript string used as a condition
Truthy(text) == text # JsNull /\ text # ""

\* the fallback of the earlier hook, state ?? initialValue
createSafeDefaultNullish(value, fallbackInitial) ==
    IF value # Undefined THEN value ELSE fallbackInitial

\* a fallback that prefers the initial value to the value
createSafeDefaultInitialFirst(value, fallbackInitial) ==
    IF fallbackInitial # Undefined THEN fallbackInitial
    ELSE IF value # Undefined THEN value
    ELSE EmptyObject

createSafeDefault(value, fallbackInitial) ==
    IF value # Undefined THEN value
    ELSE IF fallbackInitial # Undefined THEN fallbackInitial
    ELSE LET sample == fallbackInitial IN
         IF sample # Undefined
         THEN (CASE sample.t = "array" -> EmptyArray
                 [] sample.t = "object" -> EmptyObject
                 [] sample.t = "string" -> EmptyString
                 [] sample.t = "number" -> Num(0)
                 [] sample.t = "boolean" -> False
                 [] OTHER -> EmptyObject)
         ELSE EmptyObject

(***************************************************************************)
(* State. Every browser tab (context) has its own module state; the        *)
(* durable store is shared by the tabs of the origin.                      *)
(***************************************************************************)
Ctx == {"t1", "t2"}
Obs == {"o1", "o2"}

VARIABLES
    open,                \* the tabs that are open
    sharedState,         \* per tab: the Map key -> value of state.ts
    cache,               \* per tab: the lite-SWR Map key -> data
    subscriptions,       \* per tab: the lite-SWR Map key -> Set of callbacks
    listeners,           \* per tab: the "storage" listeners, in registration order
    obs,                 \* per tab, per observer: the component using the hook
    isHydrated,          \* per tab: the hydration gate
    hydrationCallbacks,  \* per tab: the callbacks deferred until hydration
    hydrationLog,        \* per tab: the callbacks invoked so far, in order
    registered,          \* per tab: every onHydrated call so far, in order
    localStorage,        \* the durable store: storage key -> text
    inbox,               \* per tab: storage events of other tabs, not yet delivered
    last                 \* what the step into the state was, when a claim needs it:
                         \* "quota": a setter whose durable write raised;
                         \* "gated": a resolution, the gate pending, of a key that
                         \* has no entry while the store holds a record of it;
                         \* "malformed": a signal whose payload is no JSON was
                         \* handed to the listeners of the tab

vars == <<open, sharedState, cache, subscriptions, listeners, obs, isHydrated,
          hydrationCallbacks, hydrationLog, registered, localStorage, inbox, last>>

OffObserver == [st |-> "off", rkey |-> NoKey, ckey |-> NoKey, init |-> Undefined]

\* the part of the state one synchronous call chain reads and writes; log is
\* what the chain has done so far: <<"memory", key>> for sharedState.set,
\* <<"cache", key>> for cache.set, <<"store", key>> for setItem and
\* <<"notify", key>> for notify; sig holds the events that storage.set has
\* dispatched in the window
World(c) ==
    [ss |-> sharedState[c], ca |-> cache[c], ls |-> localStorage,
     out |-> <<>>, notifs |-> <<>>, log |-> <<>>, sig |-> <<>>, ret |-> Undefined]

\* sharedState.set(key, value) and cache.set(key, value)
MemorySet(w, key, value) ==
    [w EXCEPT !.ss = Put(@, key, value), !.log = Append(@, <<"memory", key>>)]
CacheSet(w, key, value) ==
    [w EXCEPT !.ca = Put(@, key, value), !.log = Append(@, <<"cache", key>>)]

\* the storage listeners of tab c: the key each handler closed over and the
\* key its observer's keyRef holds, given the observers ob
HandlersOf(c, ob) ==
    [i \in 1..Len(listeners[c]) |->
        [key |-> ob[listeners[c][i]].ckey, mkey |-> ob[listeners[c][i]].rkey]]

(***************************************************************************)
(* Lite SWR: registry and cache.                                           *)
(***************************************************************************)
\* a subscribe that starts a new Set for the key on every call
subscribeReplace(subs, key, callback) ==
    Put(subs, key, {callback})

subscribe(subs, key, callback) ==
    Put(subs, key, (IF key \in DOMAIN subs THEN subs[key] ELSE {}) \cup {callback})

\* an unsubscribe function that evicts the cache entry of volatile keys only
unsubscribeKeepPersistent(r, key, callback) ==
    IF key \in DOMAIN r.subs
    THEN LET subs == r.subs[key] \ {callback} IN
         IF subs = {}
         THEN [subs |-> Del(r.subs, key),
               ca |-> IF isPersistentKey(key) THEN r.ca ELSE Del(r.ca, key)]
         ELSE [subs |-> Put(r.subs, key, subs), ca |-> r.ca]
    ELSE r

\* an unsubscribe function that evicts the cache entry without finding a Set
unsubscribeUnguarded(r, key, callback) ==
    IF key \in DOMAIN r.subs
    THEN LET subs == r.subs[key] \ {callback} IN
         IF subs = {}
         THEN [subs |-> Del(r.subs, key), ca |-> Del(r.ca, key)]
         ELSE [subs |-> Put(r.subs, key, subs), ca |-> r.ca]
    ELSE [subs |-> r.subs, ca |-> Del(r.ca, key)]

\* an unsubscribe function that leaves the emptied Set in the registry
unsubscribeKeepKey(r, key, callback) ==
    IF key \in DOMAIN r.subs
    THEN [subs |-> Put(r.subs, key, r.subs[key] \ {callback}), ca |-> r.ca]
    ELSE r

\* the function subscribe returns, on the registry and cache [subs, ca]
unsubscribe(r, key, callback) ==
    IF key \in DOMAIN r.subs
    THEN LET subs == r.subs[key] \ {callback} IN
         IF subs = {}
         THEN [subs |-> Del(r.subs, key), ca |-> Del(r.ca, key)]
         ELSE [subs |-> Put(r.subs, key, subs), ca |-> r.ca]
    ELSE r

\* notify(key) invokes the callbacks the registry holds for key
notify(w, key) ==
    [w EXCEPT !.notifs = Append(@, key), !.log = Append(@, <<"notify", key>>)]

mutate(w, currentKey, newData) ==
    notify(CacheSet(w, currentKey, newData), currentKey)

(***************************************************************************)
(* notify call by call. A run is [ca, calls, depth, react]: the cache, the *)
(* callbacks invoked so far, each with the number of notify calls that     *)
(* were on the stack, that number, and the callbacks that, when invoked,   *)
(* issue one update of the key before they return (as a component does     *)
(* that is rendered inside forceRender and calls its setter), with the     *)
(* value they write.                                                       *)
(***************************************************************************)
RECURSIVE notifyCalls(_, _, _)
RECURSIVE mutateCalls(_, _, _, _)
RECURSIVE forEachSubscriber(_, _, _, _)

\* subs.forEach((callback) => callback()), in the order order of the Set
forEachSubscriber(n, key, order, rest) ==
    IF rest = <<>> THEN n
    ELSE LET callback == Head(rest)
             n1 == [n EXCEPT !.calls = Append(@, [callback |-> callback, key |-> key,
                                                   depth |-> n.depth])]
             n2 == IF callback \in DOMAIN n1.react
                   THEN mutateCalls([n1 EXCEPT !.react = Del(@, callback)], key, order,
                                    n1.react[callback])
                   ELSE n1
         IN forEachSubscriber(n2, key, order, Tail(rest))

notifyCalls(n, key, order) ==
    LET n1 == forEachSubscriber([n EXCEPT !.depth = @ + 1], key, order, order)
    IN [n1 EXCEPT !.depth = @ - 1]

mutateCalls(n, currentKey, order, newData) ==
    notifyCalls([n EXCEPT !.ca = Put(@, currentKey, newData)], currentKey, order)

(***************************************************************************)
(* The storage listener of useSharedState and the synthetic dispatch.      *)
(***************************************************************************)
\* a handler that does not compare the key of the event with its own
handleStorageChangeAnyKey(w, h, event) ==
    IF Truthy(event.newValue)
    THEN LET newValue == safeJsonParse(event.newValue) IN
         IF newValue # Undefined
         THEN mutate(MemorySet(w, h.key, newValue), h.mkey, newValue)
         ELSE w
    ELSE w

\* a handler that hands the cache the value sharedState held before the event
handleStorageChangeStale(w, h, event) ==
    LET expectedStorageKey == getLocalStorageKey(h.key) IN
    IF event.key = expectedStorageKey /\ Truthy(event.newValue)
    THEN LET newValue == safeJsonParse(event.newValue) IN
         IF newValue # Undefined
         THEN MemorySet(mutate(w, h.mkey, MapGet(w.ss, h.key)), h.key, newValue)
         ELSE w
    ELSE w

handleStorageChange(w, h, event) ==
    LET expectedStorageKey == getLocalStorageKey(h.key) IN
    IF event.key = expectedStorageKey /\ Truthy(event.newValue)
    THEN LET newValue == safeJsonParse(event.newValue) IN
         IF newValue # Undefined
         THEN mutate(MemorySet(w, h.key, newValue), h.mkey, newValue)
         ELSE w
    ELSE w

RECURSIVE dispatchEvent(_, _, _)
dispatchEvent(w, hs, event) ==
    IF hs = <<>> THEN w
    ELSE dispatchEvent(handleStorageChange(w, Head(hs), event), Tail(hs), event)

(***************************************************************************)
(* Durable store adapter. mode is what the store does during the call:     *)
(* "ok", or "quota" (setItem raises).                                      *)
(***************************************************************************)
Modes == {"ok", "quota"}

getItem(ls, storageKey) == IF storageKey \in DOMAIN ls THEN ls[storageKey] ELSE JsNull

\* storage.get that tests the parsed value where the source tests the text
storageGetFalsy(w, key) ==
    LET storageKey == getLocalStorageKey(key)
        stored == getItem(w.ls, storageKey)
        parsed == IF Truthy(stored) THEN safeJsonParse(stored) ELSE Undefined
    IN IF parsed \in {Null, False, EmptyString, Num(0)} THEN Undefined ELSE parsed

storageGet(w, key) ==
    LET storageKey == getLocalStorageKey(key)
        stored == getItem(w.ls, storageKey)
    IN IF Truthy(stored) THEN safeJsonParse(stored) ELSE Undefined

storageSet(w, hs, key, value, mode) ==
    IF mode # "ok" THEN w
    ELSE LET storageKey == getLocalStorageKey(key)
             serialized == safeJsonStringify(value)
             \* setItem stores String(serialized)
             text == IF serialized = JsUndefined THEN "undefined" ELSE serialized
             w1 == [w EXCEPT
                      !.ls = Put(@, storageKey, text),
                      !.log = Append(@, <<"store", key>>),
                      \* the browser's own event, to the other tabs, on a change
                      !.out = IF getItem(w.ls, storageKey) # text
                              THEN Append(@, [key |-> storageKey, newValue |-> text])
                              ELSE @]
             \* a StorageEvent built with newValue: undefined carries null
             event == [key |-> storageKey,
                       newValue |-> IF serialized = JsUndefined THEN JsNull
                                    ELSE serialized]
         IN dispatchEvent([w1 EXCEPT !.sig = Append(@, event)], hs, event)

storageRemove(w, key) ==
    LET storageKey == getLocalStorageKey(key) IN
    [w EXCEPT
       !.ls = Del(@, storageKey),
       !.out = IF storageKey \in DOMAIN w.ls
               THEN Append(@, [key |-> storageKey, newValue |-> JsNull])
               ELSE @]

(***************************************************************************)
(* state.ts: resolution and update.                                        *)
(***************************************************************************)
\* the resolution of the state module that has no hydration gate
getFromMemoryOrStorageUngated(w, hs, key, initialValue, hydrated, mode) ==
    IF key \in DOMAIN w.ss THEN [w EXCEPT !.ret = w.ss[key]]
    ELSE LET persisted == IF isPersistentKey(key) THEN storageGet(w, key)
                          ELSE Undefined
         IN IF persisted # Undefined
            THEN [MemorySet(w, key, persisted) EXCEPT !.ret = persisted]
            ELSE IF initialValue # Undefined
            THEN LET w1 == MemorySet(w, key, initialValue)
                     w2 == IF isPersistentKey(key)
                           THEN storageSet(w1, hs, key, initialValue, mode)
                           ELSE w1
                 IN [w2 EXCEPT !.ret = initialValue]
            ELSE [w EXCEPT !.ret = Undefined]

\* a resolution that does not look into sharedState first
getFromMemoryOrStorageNoFastPath(w, hs, key, initialValue, hydrated, mode) ==
    IF isPersistentKey(key) /\ ~hydrated
    THEN IF initialValue # Undefined
         THEN [MemorySet(w, key, initialValue) EXCEPT !.ret = initialValue]
         ELSE [w EXCEPT !.ret = Undefined]
    ELSE LET persisted == IF isPersistentKey(key) THEN storageGet(w, key)
                          ELSE Undefined
         IN IF persisted # Undefined
            THEN [MemorySet(w, key, persisted) EXCEPT !.ret = persisted]
            ELSE IF initialValue # Undefined
            THEN LET w1 == MemorySet(w, key, initialValue)
                     w2 == IF isPersistentKey(key)
                           THEN storageSet(w1, hs, key, initialValue, mode)
                           ELSE w1
                 IN [w2 EXCEPT !.ret = initialValue]
            ELSE [w EXCEPT !.ret = Undefined]

\* a resolution that keeps the initial value in memory only
getFromMemoryOrStorageMemoryOnly(w, hs, key, initialValue, hydrated, mode) ==
    IF key \in DOMAIN w.ss THEN [w EXCEPT !.ret = w.ss[key]]
    ELSE IF isPersistentKey(key) /\ ~hydrated
    THEN IF initialValue # Undefined
         THEN [MemorySet(w, key, initialValue) EXCEPT !.ret = initialValue]
         ELSE [w EXCEPT !.ret = Undefined]
    ELSE LET persisted == IF isPersistentKey(key) THEN storageGet(w, key)
                          ELSE Undefined
         IN IF persisted # Undefined
            THEN [MemorySet(w, key, persisted) EXCEPT !.ret = persisted]
            ELSE IF initialValue # Undefined
            THEN [MemorySet(w, key, initialValue) EXCEPT !.ret = initialValue]
            ELSE [w EXCEPT !.ret = Undefined]

getFromMemoryOrStorage(w, hs, key, initialValue, hydrated, mode) ==
    IF key \in DOMAIN w.ss THEN [w EXCEPT !.ret = w.ss[key]]
    ELSE IF isPersistentKey(key) /\ ~hydrated
    THEN IF initialValue # Undefined
         THEN [MemorySet(w, key, initialValue) EXCEPT !.ret = initialValue]
         ELSE [w EXCEPT !.ret = Undefined]
    ELSE LET persisted == IF isPersistentKey(key) THEN storageGet(w, key)
                          ELSE Undefined
         IN IF persisted # Undefined
            THEN [MemorySet(w, key, persisted) EXCEPT !.ret = persisted]
            ELSE IF initialValue # Undefined
            THEN LET w1 == MemorySet(w, key, initialValue)
                     w2 == IF isPersistentKey(key)
                           THEN storageSet(w1, hs, key, initialValue, mode)
                           ELSE w1
                 IN [w2 EXCEPT !.ret = initialValue]
            ELSE [w EXCEPT !.ret = Undefined]

\* the setter's argument: a replacement value or a function of the previous value
Replace(v) == [kind |-> "replace", v |-> v, f |-> "none"]
Compute(f) == [kind |-> "compute", v |-> Undefined, f |-> f]

CallFn(f, prev) ==
    CASE f = "inc" -> Num(prev.n + 1)
      [] f = "retUndef" -> Undefined
      [] OTHER -> prev

\* the updater function throws when it is called
Raises(value) == value.kind = "compute" /\ value.f = "raise"

\* an update that persists whatever the key
updateValueAlwaysPersist(w, hs, key, value, currentValue, mkey, mode) ==
    LET newValue == IF value.kind = "compute" THEN CallFn(value.f, currentValue)
                    ELSE value.v
        w1 == MemorySet(w, key, newValue)
        w2 == storageSet(w1, hs, key, newValue, mode)
    IN [mutate(w2, mkey, newValue) EXCEPT !.ret = newValue]

updateValue(w, hs, key, value, currentValue, mkey, mode) ==
    \* an updater that raises leaves updateValue before its first statement
    IF Raises(value) THEN w
    ELSE
    LET newValue == IF value.kind = "compute" THEN CallFn(value.f, currentValue)
                    ELSE value.v
        w1 == MemorySet(w, key, newValue)
        w2 == IF isPersistentKey(key) THEN storageSet(w1, hs, key, newValue, mode)
              ELSE w1
    IN [mutate(w2, mkey, newValue) EXCEPT !.ret = newValue]

(***************************************************************************)
(* debug.ts: sharedStateUtils.                                             *)
(***************************************************************************)
\* the keys of the records under the namespace, turned back into @-keys, in
\* each order in which localStorage.key(i) may enumerate them
getPersistentKeysFromStorage(ls) ==
    LET found == {<<"@">> \o Slice(storageKey, Len(LOCALSTORAGE_PREFIX)) :
                     storageKey \in {x \in DOMAIN ls : StartsWith(x, LOCALSTORAGE_PREFIX)}}
    IN {keys \in [1..Cardinality(found) -> found] :
           \A m, n \in 1..Cardinality(found) : m # n => keys[m] # keys[n]}

RECURSIVE forEachRemove(_, _)
forEachRemove(w, keys) ==
    IF keys = <<>> THEN w ELSE forEachRemove(storageRemove(w, Head(keys)), Tail(keys))

\* sharedStateUtils.clear; keys is what getPersistentKeysFromStorage returns
clear(w, includePersistent, keys) ==
    LET w1 == IF includePersistent THEN forEachRemove(w, keys) ELSE w
    IN [w1 EXCEPT !.ss = EmptyMap]

delete(w, key) ==
    LET w1 == [w EXCEPT !.ss = Del(@, key)]
    IN IF isPersistentKey(key) THEN storageRemove(w1, key) ELSE w1

(***************************************************************************)
(* The hook body: useLiteSWR and useSharedState.                           *)
(***************************************************************************)
useLiteSWR(w, hs, key, initialValue, hydrated, mode) ==
    LET w1 == IF key \notin DOMAIN w.ca
              THEN LET r == getFromMemoryOrStorage(w, hs, key, initialValue,
                                                   hydrated, mode)
                   IN CacheSet(r, key, r.ret)
              ELSE w
    IN [w1 EXCEPT !.ret = w1.ca[key]]

useSharedState(w, hs, key, initialValue, hydrated, mode) ==
    LET r == useLiteSWR(w, hs, key, initialValue, hydrated, mode)
    IN [r EXCEPT !.ret = createSafeDefault(r.ret, initialValue)]

\* setState of the render that closed over key and initialValue; mutate writes
\* under the key the observer's keyRef holds
setState(w, hs, key, initialValue, value, mkey, mode) ==
    LET currentValue == createSafeDefault(MapGet(w.ss, key), initialValue)
    IN updateValue(w, hs, key, value, currentValue, mkey, mode)

(***************************************************************************)
(* Hydration gate. A callback is [id, reg]: invoked, it records its id and,*)
(* when reg is not 0, registers the callback [reg, 0] with onHydrated.     *)
(* The gate state of one tab is [hyd, q, log, reg].                        *)
(***************************************************************************)
CallbackIds == 1..MaxCallbacks
Callbacks == [id : CallbackIds, reg : 0..MaxCallbacks]

Gate(c) ==
    [hyd |-> isHydrated[c], q |-> hydrationCallbacks[c],
     log |-> hydrationLog[c], reg |-> registered[c]]

RECURSIVE onHydrated(_, _)
RECURSIVE invokeCallback(_, _)
invokeCallback(g, callback) ==
    LET g1 == [g EXCEPT !.log = Append(@, callback.id)] IN
    IF callback.reg # 0 THEN onHydrated(g1, [id |-> callback.reg, reg |-> 0])
    ELSE g1

onHydrated(g, callback) ==
    LET g1 == [g EXCEPT !.reg = Append(@, [id |-> callback.id, ready |-> g.hyd])] IN
    IF g.hyd THEN invokeCallback(g1, callback)
    ELSE [g1 EXCEPT !.q = Append(@, callback)]

RECURSIVE forEachCallback(_, _)
forEachCallback(g, q) ==
    IF q = <<>> THEN g ELSE forEachCallback(invokeCallback(g, Head(q)), Tail(q))

\* a markHydrated that leaves the callbacks it has run in the queue
markHydratedKeepQueue(g) ==
    forEachCallback([g EXCEPT !.hyd = TRUE], g.q)

markHydrated(g) ==
    LET g1 == forEachCallback([g EXCEPT !.hyd = TRUE], g.q)
    IN [g1 EXCEPT !.q = <<>>]

ApplyGate(c, g) ==
    /\ isHydrated' = [isHydrated EXCEPT ![c] = g.hyd]
    /\ hydrationCallbacks' = [hydrationCallbacks EXCEPT ![c] = g.q]
    /\ hydrationLog' = [hydrationLog EXCEPT ![c] = g.log]
    /\ registered' = [registered EXCEPT ![c] = g.reg]

GateUnchanged == UNCHANGED <<isHydrated, hydrationCallbacks, hydrationLog, registered>>

\* the ids a tab has used: registered, or named by a callback that waits
UsedIds(c) ==
    {registered[c][i].id : i \in 1..Len(registered[c])}
    \cup {hydrationCallbacks[c][i].reg : i \in 1..Len(hydrationCallbacks[c])}

(***************************************************************************)
(* Actions.                                                                *)
(***************************************************************************)
InitVals == {Undefined, Num(0)}
Updaters == {Replace(v) : v \in {Undefined} \cup Nums}
            \cup {Compute("inc"), Compute("retUndef")}
\* a text that JSON.parse rejects
Malformed == "{oops"

\* what another script of the origin may write
ForeignTexts == {safeJsonStringify(Num(1))}

\* the tabs that receive the browser's storage events of tab c
Peers(c) == open \ {c}

ApplyWorld(c, w) ==
    /\ \A d \in Peers(c) : Len(inbox[d]) + Len(w.out) <= MaxInbox
    /\ sharedState' = [sharedState EXCEPT ![c] = w.ss]
    /\ cache' = [cache EXCEPT ![c] = w.ca]
    /\ localStorage' = w.ls
    /\ inbox' = [d \in Ctx |-> IF d \in Peers(c) THEN inbox[d] \o w.out ELSE inbox[d]]

\* the hook body is about to resolve key from nothing while the gate is pending
\* and the durable store holds a record of it
Gated(c, key) ==
    /\ ~isHydrated[c]
    /\ isPersistentKey(key)
    /\ key \notin DOMAIN cache[c]
    /\ key \notin DOMAIN sharedState[c]
    /\ storageGet(World(c), key) # Undefined

\* first render of an observer: the hook body runs with key and initialValue
Mount(c, o, key, initialValue, mode) ==
    /\ c \in open
    /\ obs[c][o].st = "off"
    /\ LET ob == [obs[c] EXCEPT ![o] = [st |-> "rendered", rkey |-> key,
                                        ckey |-> NoKey, init |-> initialValue]]
           w == useSharedState(World(c), HandlersOf(c, ob), key, initialValue,
                               isHydrated[c], mode)
       IN /\ ApplyWorld(c, w)
          /\ obs' = [obs EXCEPT ![c] = ob]
          /\ last' = IF Gated(c, key) THEN "gated" ELSE "none"
    /\ UNCHANGED <<open, subscriptions, listeners>>
    /\ GateUnchanged

\* a later render of a mounted observer, with the same key or another one
Rerender(c, o, key, mode) ==
    /\ c \in open
    /\ obs[c][o].st = "mounted"
    /\ LET ob == [obs[c] EXCEPT ![o].rkey = key]
           w == useSharedState(World(c), HandlersOf(c, ob), key, obs[c][o].init,
                               isHydrated[c], mode)
       IN /\ ApplyWorld(c, w)
          /\ obs' = [obs EXCEPT ![c] = ob]
          /\ last' = IF Gated(c, key) THEN "gated" ELSE "none"
    /\ UNCHANGED <<open, subscriptions, listeners>>
    /\ GateUnchanged

\* the increment is called on a number whose successor the model holds
Callable(value, currentValue) ==
    value = Compute("inc") =>
        currentValue.t = "number" /\ CallFn("inc", currentValue) \in Nums

RemoveFrom(seq, x) == SelectSeq(seq, LAMBDA y : y # x)

\* the effects of a render: the cleanups of the previous effects, then
\* subscribe and, for a persistent key, addEventListener
Commit(c, o) ==
    /\ c \in open
    /\ \/ obs[c][o].st = "rendered"
       \/ obs[c][o].st = "mounted" /\ obs[c][o].rkey # obs[c][o].ckey
    /\ LET me == obs[c][o]
           r0 == [subs |-> subscriptions[c], ca |-> cache[c]]
           r1 == IF me.ckey # NoKey THEN unsubscribe(r0, me.ckey, o) ELSE r0
           l1 == RemoveFrom(listeners[c], o)
       IN /\ subscriptions' = [subscriptions EXCEPT ![c] = subscribe(r1.subs, me.rkey, o)]
          /\ cache' = [cache EXCEPT ![c] = r1.ca]
          /\ listeners' = [listeners EXCEPT ![c] =
                              IF isPersistentKey(me.rkey) THEN Append(l1, o) ELSE l1]
          /\ obs' = [obs EXCEPT ![c][o] = [me EXCEPT !.st = "mounted", !.ckey = me.rkey]]
          /\ last' = "none"
    /\ UNCHANGED <<open, sharedState, localStorage, inbox>>
    /\ GateUnchanged

Unmount(c, o) ==
    /\ c \in open
    /\ obs[c][o].st = "mounted"
    /\ LET me == obs[c][o]
           r1 == unsubscribe([subs |-> subscriptions[c], ca |-> cache[c]], me.ckey, o)
       IN /\ subscriptions' = [subscriptions EXCEPT ![c] = r1.subs]
          /\ cache' = [cache EXCEPT ![c] = r1.ca]
          /\ listeners' = [listeners EXCEPT ![c] = RemoveFrom(@, o)]
          /\ obs' = [obs EXCEPT ![c][o] = OffObserver]
          /\ last' = "none"
    /\ UNCHANGED <<open, sharedState, localStorage, inbox>>
    /\ GateUnchanged

\* the setter of the committed render is called
SetState(c, o, value, mode) ==
    /\ c \in open
    /\ obs[c][o].st = "mounted"
    /\ LET me == obs[c][o]
           currentValue == createSafeDefault(MapGet(sharedState[c], me.ckey), me.init)
       IN /\ Callable(value, currentValue)
          /\ LET w == setState(World(c), HandlersOf(c, obs[c]), me.ckey, me.init,
                               value, me.rkey, mode)
             IN /\ ApplyWorld(c, w)
                /\ last' = IF isPersistentKey(me.ckey) /\ mode = "quota" THEN "quota"
                           ELSE "none"
    /\ UNCHANGED <<open, subscriptions, listeners, obs>>
    /\ GateUnchanged

\* the browser delivers the oldest storage event of another tab
Deliver(c) ==
    /\ c \in open
    /\ inbox[c] # <<>>
    /\ LET event == Head(inbox[c])
           w == dispatchEvent(World(c), HandlersOf(c, obs[c]), event)
       IN /\ sharedState' = [sharedState EXCEPT ![c] = w.ss]
          /\ cache' = [cache EXCEPT ![c] = w.ca]
          /\ inbox' = [inbox EXCEPT ![c] = Tail(@)]
          /\ last' = IF /\ listeners[c] # <<>>
                        /\ Truthy(event.newValue)
                        /\ safeJsonParse(event.newValue) = Undefined
                     THEN "malformed" ELSE "none"
    /\ UNCHANGED <<open, subscriptions, listeners, obs, localStorage>>
    /\ GateUnchanged

\* a script of the origin outside the modelled tabs writes a record
ForeignWrite(storageKey, text) ==
    /\ getItem(localStorage, storageKey) # text
    /\ \A d \in open : Len(inbox[d]) < MaxInbox
    /\ localStorage' = Put(localStorage, storageKey, text)
    /\ inbox' = [d \in Ctx |-> IF d \in open
                               THEN Append(inbox[d], [key |-> storageKey, newValue |-> text])
                               ELSE inbox[d]]
    /\ last' = "none"
    /\ UNCHANGED <<open, sharedState, cache, subscriptions, listeners, obs>>
    /\ GateUnchanged

\* sharedStateUtils.delete
Delete(c, key) ==
    /\ c \in open
    /\ ApplyWorld(c, delete(World(c), key))
    /\ last' = "none"
    /\ UNCHANGED <<open, subscriptions, listeners, obs>>
    /\ GateUnchanged

\* sharedStateUtils.clear
Clear(c, includePersistent) ==
    /\ c \in open
    /\ \E keys \in getPersistentKeysFromStorage(localStorage) :
           ApplyWorld(c, clear(World(c), includePersistent, keys))
    /\ last' = "none"
    /\ UNCHANGED <<open, subscriptions, listeners, obs>>
    /\ GateUnchanged

\* DOMContentLoaded: the gate opens and the deferred callbacks run
MarkHydrated(c) ==
    /\ c \in open
    /\ ~isHydrated[c]
    /\ ApplyGate(c, markHydrated(Gate(c)))
    /\ last' = "none"
    /\ UNCHANGED <<open, sharedState, cache, subscriptions, listeners, obs,
                   localStorage, inbox>>

OnHydrated(c, callback) ==
    /\ c \in open
    /\ {callback.id, callback.reg} \cap UsedIds(c) = {}
    /\ callback.id # callback.reg
    /\ ApplyGate(c, onHydrated(Gate(c), callback))
    /\ last' = "none"
    /\ UNCHANGED <<open, sharedState, cache, subscriptions, listeners, obs,
                   localStorage, inbox>>

(***************************************************************************)
(* Specifications.                                                         *)
(***************************************************************************)
InitWith(tabs, gates) ==
    /\ open = tabs
    /\ sharedState = [c \in Ctx |-> EmptyMap]
    /\ cache = [c \in Ctx |-> EmptyMap]
    /\ subscriptions = [c \in Ctx |-> EmptyMap]
    /\ listeners = [c \in Ctx |-> <<>>]
    /\ obs = [c \in Ctx |-> [o \in Obs |-> OffObserver]]
    /\ isHydrated \in [Ctx -> gates]
    /\ \A c \in Ctx \ tabs : ~isHydrated[c]
    /\ hydrationCallbacks = [c \in Ctx |-> <<>>]
    /\ hydrationLog = [c \in Ctx |-> <<>>]
    /\ registered = [c \in Ctx |-> <<>>]
    /\ localStorage = EmptyMap
    /\ inbox = [c \in Ctx |-> <<>>]
    /\ last = "none"

\* o1 mounts with or without an initial value, o2 without one
InitValsOf(o) == IF o = "o1" THEN InitVals ELSE {Undefined}

\* an input of a render that the store's mode cannot affect is tried once
ModeMatters(key, mode) == isPersistentKey(key) \/ mode = "ok"

\* the observers whose key may change between renders, and from which key
MayChangeKey(c, o) == o = "o1" /\ obs[c][o].ckey = KeyP

\* one tab; the rest of the origin is the foreign writer
Init == InitWith({"t1"}, {FALSE})

Next ==
    \/ \E o \in Obs, key \in Keys, mode \in Modes : \E i \in InitValsOf(o) :
           ModeMatters(key, mode) /\ Mount("t1", o, key, i, mode)
    \/ \E o \in Obs, key \in Keys, mode \in Modes :
           /\ ModeMatters(key, mode)
           /\ key = obs["t1"][o].ckey \/ MayChangeKey("t1", o)
           /\ Rerender("t1", o, key, mode)
    \/ \E o \in Obs : Commit("t1", o)
    \/ \E o \in Obs : Unmount("t1", o)
    \/ \E o \in Obs, value \in Updaters, mode \in Modes :
           /\ ModeMatters(obs["t1"][o].ckey, mode)
           /\ SetState("t1", o, value, mode)
    \/ Deliver("t1")
    \/ \E text \in ForeignTexts : ForeignWrite(getLocalStorageKey(KeyP), text)
    \/ \E key \in Keys : Delete("t1", key)
    \/ MarkHydrated("t1")

Spec == Init /\ [][Next]_vars

\* the hydration gate alone
NextGate ==
    \/ \E callback \in Callbacks : OnHydrated("t1", callback)
    \/ MarkHydrated("t1")

SpecGate == Init /\ [][NextGate]_vars

\* two tabs of the origin, hydrated, one observer each on the persistent key;
\* the setters are called while every tab has its subscriber
InitTabs == InitWith(Ctx, {TRUE})

AllSubscribed == \A c \in Ctx : obs[c]["o1"].st = "mounted"

NextTabs ==
    \E c \in Ctx :
        \/ Mount(c, "o1", KeyP, Num(0), "ok")
        \/ Commit(c, "o1")
        \/ Unmount(c, "o1")
        \/ \E v \in Nums : AllSubscribed /\ SetState(c, "o1", Replace(v), "ok")
        \/ Deliver(c)

SpecTabs == InitTabs /\ [][NextTabs]_vars

\* one tab whose observers use the persistent key, and another script of the
\* origin that writes records of it, well-formed or not
SignalTexts == NumTexts \cup {Malformed}

NextSignals ==
    \/ \E o \in Obs : \E i \in InitValsOf(o) : Mount("t1", o, KeyP, i, "ok")
    \/ \E o \in Obs : Commit("t1", o)
    \/ \E o \in Obs : Unmount("t1", o)
    \/ \E o \in Obs, v \in Nums : SetState("t1", o, Replace(v), "ok")
    \/ Deliver("t1")
    \/ \E text \in SignalTexts : ForeignWrite(getLocalStorageKey(KeyP), text)
    \/ MarkHydrated("t1")

SpecSignals == Init /\ [][NextSignals]_vars

\* one tab whose observers use both keys while the debug utilities are called
\* and another script keeps a record of its own in the store
OtherKey == <<"x">>

NextUtils ==
    \/ \E o \in Obs, key \in Keys : Mount("t1", o, key, Num(0), "ok")
    \/ \E o \in Obs : Commit("t1", o)
    \/ \E o \in Obs : Unmount("t1", o)
    \/ \E o \in Obs : SetState("t1", o, Replace(Num(1)), "ok")
    \/ Deliver("t1")
    \/ ForeignWrite(OtherKey, "1")
    \/ \E key \in Keys : Delete("t1", key)
    \/ \E includePersistent \in BOOLEAN : Clear("t1", includePersistent)
    \/ MarkHydrated("t1")

SpecUtils == Init /\ [][NextUtils]_vars

(***************************************************************************)
(* Properties.                                                             *)
(***************************************************************************)
T == "t1"

Notified(w, key) == \E n \in 1..Len(w.notifs) : w.notifs[n] = key

\* the entry of a Map for a key: whether there is one, and its value
Entry(f, key) == <<key \in DOMAIN f, MapGet(f, key)>>

\* the value the setter of observer o would start from
CurrentValueOf(o) ==
    createSafeDefault(MapGet(sharedState[T], obs[T][o].ckey), obs[T][o].init)

\* the world after the setter of observer o is called with value
SetStateOf(o, value, mode) ==
    setState(World(T), HandlersOf(T, obs[T]), obs[T][o].ckey, obs[T][o].init,
             value, obs[T][o].rkey, mode)

\* the world after observer o renders with key and initialValue, from world w
RenderOf(w, o, key, initialValue, mode) ==
    useSharedState(w, HandlersOf(T, [obs[T] EXCEPT ![o].rkey = key]), key,
                   initialValue, isHydrated[T], mode)

\* C1: in every reachable state, whatever the observer, the key, the initial
\* value (none included) and the behaviour of the store, the value the hook
\* returns is not undefined.
C1_NoUndefinedReturned ==
    \A o \in Obs, key \in Keys, i \in InitVals, mode \in Modes :
        RenderOf(World(T), o, key, i, mode).ret # Undefined

\* C1 witness: an observer that gave no initial value has rendered a key whose
\* entries hold undefined, after a setter wrote undefined.
C1_Witness ==
    \E o \in Obs :
        /\ obs[T][o].st = "mounted"
        /\ obs[T][o].init = Undefined
        /\ obs[T][o].rkey = obs[T][o].ckey
        /\ Entry(cache[T], obs[T][o].rkey) = <<TRUE, Undefined>>
        /\ Entry(sharedState[T], obs[T][o].rkey) = <<TRUE, Undefined>>

\* C2: a setter call of an observer subscribed under key a, or a delivered
\* signal for a, invokes no callback registered for another key b and leaves
\* the cached value of b unchanged.
C2_Isolation ==
    /\ \A o \in Obs, value \in Updaters, mode \in Modes :
           (obs[T][o].st = "mounted" /\ Callable(value, CurrentValueOf(o))) =>
               LET w == SetStateOf(o, value, mode) IN
               \A b \in Keys \ {obs[T][o].ckey} :
                   /\ ~(Notified(w, b) /\ b \in DOMAIN subscriptions[T])
                   /\ Entry(w.ca, b) = Entry(cache[T], b)
                   /\ Entry(w.ss, b) = Entry(sharedState[T], b)
    /\ inbox[T] # <<>> =>
           LET w == dispatchEvent(World(T), HandlersOf(T, obs[T]), Head(inbox[T])) IN
           \A b \in Keys :
               getLocalStorageKey(b) # Head(inbox[T]).key =>
                   /\ ~(Notified(w, b) /\ b \in DOMAIN subscriptions[T])
                   /\ Entry(w.ca, b) = Entry(cache[T], b)
                   /\ Entry(w.ss, b) = Entry(sharedState[T], b)

\* C3: after a mounted observer of key k calls its setter with a value, the
\* callbacks registered for k are invoked, and every observer that then
\* renders k, mounted or fresh, with whatever initial value or none, is
\* returned the new value v.
C3_Sharing ==
    \A o \in Obs, value \in Updaters, mode \in Modes :
        LET k == obs[T][o].ckey IN
        (obs[T][o].st = "mounted" /\ Callable(value, CurrentValueOf(o))) =>
            LET w == SetStateOf(o, value, mode)
                v == w.ret
            IN /\ Notified(w, k)
               /\ \A p \in Obs, i \in InitVals, m \in Modes :
                      RenderOf(w, p, k, i, m).ret = v

\* The same for a setter called through the key the observer last rendered,
\* with a value that is not undefined: both Maps hold v as well.
SharingThroughCurrentKey ==
    \A o \in Obs, value \in Updaters, mode \in Modes :
        LET k == obs[T][o].ckey IN
        (/\ obs[T][o].st = "mounted"
         /\ obs[T][o].rkey = k
         /\ Callable(value, CurrentValueOf(o))) =>
            LET w == SetStateOf(o, value, mode)
                v == w.ret
            IN v # Undefined =>
                /\ Notified(w, k)
                /\ Entry(w.ss, k) = <<TRUE, v>>
                /\ Entry(w.ca, k) = <<TRUE, v>>
                /\ \A p \in Obs, i \in InitVals, m \in Modes :
                       RenderOf(w, p, k, i, m).ret = v

\* C4: when every tab has a mounted observer of the persistent key and every
\* signal has been delivered, every tab holds the value the durable record
\* decodes to.
C4_TabsAgree ==
    (\A c \in Ctx : /\ inbox[c] = <<>>
                    /\ obs[c]["o1"].st = "mounted"
                    /\ obs[c]["o1"].ckey = KeyP) =>
        \A c \in Ctx : MapGet(sharedState[c], KeyP) = storageGet(World(c), KeyP)

\* what the durable store may hold for the persistent key
StoreContents ==
    {EmptyMap} \cup {Put(EmptyMap, getLocalStorageKey(KeyP), text) :
                        text \in NumTexts \cup {"undefined", "null"}}

ResolveOf(w, key, initialValue, mode) ==
    getFromMemoryOrStorage(w, HandlersOf(T, obs[T]), key, initialValue,
                           isHydrated[T], mode)

\* C5 as claimed: while the gate is pending, resolving a persistent key
\* yields the supplied initial value (undefined when there is none).
C5_PendingResolveIsInitial ==
    \A key \in Keys, i \in InitVals, mode \in Modes :
        (~isHydrated[T] /\ isPersistentKey(key)) =>
            ResolveOf(World(T), key, i, mode).ret = i

\* C5 amended: while the gate is pending, resolving a persistent key yields
\* the key's entry of sharedState when it has one and the supplied initial
\* value (undefined when there is none) otherwise; the result, and what the
\* hook returns for the key, are the same whatever the durable store holds,
\* and the store is not written.
C5_PendingResolveIgnoresStore ==
    \A key \in Keys, i \in InitVals, mode \in Modes :
        (~isHydrated[T] /\ isPersistentKey(key)) =>
            LET r == ResolveOf(World(T), key, i, mode) IN
            /\ r.ret = IF key \in DOMAIN sharedState[T] THEN sharedState[T][key] ELSE i
            /\ r.ls = localStorage
            /\ r.out = <<>>
            /\ \A ls \in StoreContents :
                   /\ ResolveOf([World(T) EXCEPT !.ls = ls], key, i, mode).ret = r.ret
                   /\ \A o \in Obs :
                          LET h == RenderOf([World(T) EXCEPT !.ls = ls], o, key, i, mode)
                          IN /\ h.ret = RenderOf(World(T), o, key, i, mode).ret
                             /\ h.ls = ls

\* C5 witness: the gate is pending, the store holds 1 for the persistent key,
\* and a render has just resolved the key, which had no entry, to its
\* initial value 0.
C5_Witness ==
    /\ last = "gated"
    /\ ~isHydrated[T]
    /\ storageGet(World(T), KeyP) = Num(1)
    /\ Entry(sharedState[T], KeyP) = <<TRUE, Num(0)>>
    /\ Entry(cache[T], KeyP) = <<TRUE, Num(0)>>

\* C6: when the gate becomes ready, every persistent key that has an entry
\* and subscribers, and whose durable record decodes to another value than
\* the entry, is set to the durable value in both Maps.
C6_ReconcileOnReady ==
    [][(~isHydrated[T] /\ isHydrated'[T] /\ inbox[T] = <<>>) =>
          \A key \in DOMAIN sharedState[T] :
              (isPersistentKey(key) /\ key \in DOMAIN subscriptions[T]) =>
                  LET d == storageGet(World(T), key) IN
                  (d # Undefined /\ d # sharedState[T][key]) =>
                      /\ Entry(sharedState'[T], key) = <<TRUE, d>>
                      /\ Entry(cache'[T], key) = <<TRUE, d>>]_vars

\* the positions of the log at which callback id was invoked
InvokedAt(id) == {n \in 1..Len(hydrationLog[T]) : hydrationLog[T][n] = id}
\* the positions of the registrations made while the gate was pending / ready
PendingRegs == {n \in 1..Len(registered[T]) : ~registered[T][n].ready}
ReadyRegs == {n \in 1..Len(registered[T]) : registered[T][n].ready}

\* C7: once the gate is ready, every callback registered while it was pending
\* has been invoked exactly once, in registration order, and before every
\* callback registered after the gate became ready.
C7_HydrationOrder ==
    isHydrated[T] =>
        /\ \A n \in PendingRegs : Cardinality(InvokedAt(registered[T][n].id)) = 1
        /\ \A m, n \in PendingRegs :
               m < n => \A x \in InvokedAt(registered[T][m].id),
                           y \in InvokedAt(registered[T][n].id) : x < y
        /\ \A m \in PendingRegs, n \in ReadyRegs :
               \A x \in InvokedAt(registered[T][m].id),
                  y \in InvokedAt(registered[T][n].id) : x < y

\* C8: a key for which the registry holds subscribers has a cache entry (in
\* sharedState or in the lite-SWR cache).
C8_CacheRegistryConsistent ==
    \A key \in DOMAIN subscriptions[T] :
        subscriptions[T][key] # {} =>
            key \in DOMAIN sharedState[T] \/ key \in DOMAIN cache[T]

\* C9: no key present in sharedState maps to undefined.
C9_NoUndefinedEntry ==
    \A key \in DOMAIN sharedState[T] : sharedState[T][key] # Undefined

\* C10: when the durable store raises on the write of a setter call on a
\* persistent key k, the call completes: sharedState holds the new value for
\* k, the store is as it was, the callbacks registered for k are invoked, and
\* every later resolution of k, by the state module or by the hook's cache
\* layer, yields the new value.
C10_WriteFailureIsolated ==
    \A o \in Obs, value \in Updaters :
        LET k == obs[T][o].ckey IN
        (/\ obs[T][o].st = "mounted"
         /\ isPersistentKey(k)
         /\ Callable(value, CurrentValueOf(o))) =>
            LET w == SetStateOf(o, value, "quota")
                v == w.ret
            IN /\ Entry(w.ss, k) = <<TRUE, v>>
               /\ w.ls = localStorage
               /\ Notified(w, k)
               /\ \A i \in InitVals, m \in Modes :
                      /\ ResolveOf(w, k, i, m).ret = v
                      /\ useLiteSWR(w, HandlersOf(T, obs[T]), k, i, isHydrated[T], m).ret = v

\* The same for a setter called through the key the observer last rendered.
WriteFailureThroughCurrentKey ==
    \A o \in Obs, value \in Updaters :
        LET k == obs[T][o].ckey IN
        (/\ obs[T][o].st = "mounted"
         /\ obs[T][o].rkey = k
         /\ isPersistentKey(k)
         /\ Callable(value, CurrentValueOf(o))) =>
            LET w == SetStateOf(o, value, "quota")
                v == w.ret
            IN /\ Entry(w.ss, k) = <<TRUE, v>>
               /\ Entry(w.ca, k) = <<TRUE, v>>
               /\ w.ls = localStorage
               /\ Notified(w, k)
               /\ \A i \in InitVals, m \in Modes :
                      /\ ResolveOf(w, k, i, m).ret = v
                      /\ useLiteSWR(w, HandlersOf(T, obs[T]), k, i, isHydrated[T], m).ret = v

\* the values the round trip is claimed for
Serializable == {Null, False, EmptyString, EmptyArray, EmptyObject} \cup Nums

\* a process that starts with empty Maps over the durable store ls
FreshWorld(ls) ==
    [ss |-> EmptyMap, ca |-> EmptyMap, ls |-> ls, out |-> <<>>, notifs |-> <<>>,
     log |-> <<>>, sig |-> <<>>, ret |-> Undefined]

\* what a fresh process resolves key to, by the state module and by the hook
FreshResolutions(ls, key, initialValue, hydrated, mode) ==
    {getFromMemoryOrStorage(FreshWorld(ls), <<>>, key, initialValue, hydrated, mode).ret,
     useSharedState(FreshWorld(ls), <<>>, key, initialValue, hydrated, mode).ret}

\* C11 as claimed: after a setter wrote a serializable value v for a
\* persistent key, a resolution of the key from empty Maps yields v, whatever
\* the initial value and whatever the state of the hydration gate.
C11_RoundTrip ==
    \A o \in Obs, v \in Serializable :
        (obs[T][o].st = "mounted" /\ isPersistentKey(obs[T][o].ckey)) =>
            LET w == SetStateOf(o, Replace(v), "ok") IN
            \A i \in InitVals, hydrated \in BOOLEAN, m \in Modes :
                FreshResolutions(w.ls, obs[T][o].ckey, i, hydrated, m) = {v}

\* C11 amended: the same for a resolution made once the hydration gate is
\* ready.
C11_RoundTripOnceReady ==
    \A o \in Obs, v \in Serializable :
        (obs[T][o].st = "mounted" /\ isPersistentKey(obs[T][o].ckey)) =>
            LET w == SetStateOf(o, Replace(v), "ok") IN
            \A i \in InitVals, m \in Modes :
                FreshResolutions(w.ls, obs[T][o].ckey, i, TRUE, m) = {v}

\* C11 witness: an observer with no initial value wrote 0 for the persistent
\* key, the durable record is the text of 0, and the gate is ready.
C11_Witness ==
    /\ isHydrated[T]
    /\ \E o \in Obs : /\ obs[T][o].st = "mounted"
                      /\ obs[T][o].ckey = KeyP
                      /\ obs[T][o].init = Undefined
    /\ getItem(localStorage, getLocalStorageKey(KeyP)) = "0"
    /\ Entry(sharedState[T], KeyP) = <<TRUE, Num(0)>>
    /\ FreshResolutions(localStorage, KeyP, Undefined, TRUE, "ok") = {Num(0)}

\* the positions of the log of w at which op was done for key
Done(w, op, key) == {n \in 1..Len(w.log) : w.log[n] = <<op, key>>}

\* C12: a setter call of a mounted observer writes sharedState once for its
\* key, writes the durable store at most once, writes the subscriber-facing
\* cache at most once and broadcasts once for the key, the write of
\* sharedState before the durable write and both before the broadcast; the
\* handlers run by the event that the durable write dispatches are counted.
C12_OneWriteOneBroadcast ==
    \A o \in Obs, value \in Updaters, mode \in Modes :
        LET k == obs[T][o].ckey IN
        (obs[T][o].st = "mounted" /\ Callable(value, CurrentValueOf(o))) =>
            LET w == SetStateOf(o, value, mode) IN
            /\ Cardinality(Done(w, "memory", k)) = 1
            /\ Cardinality(Done(w, "store", k)) <= 1
            /\ Cardinality(Done(w, "cache", k)) <= 1
            /\ Cardinality(Done(w, "notify", k)) = 1
            /\ \A a \in Done(w, "memory", k), b \in Done(w, "store", k) : a < b
            /\ \A a \in Done(w, "memory", k) \cup Done(w, "store", k),
                  b \in Done(w, "notify", k) : a < b

\* An update of the key of observer o: a setter call of o, or a signal for the
\* key delivered to this tab.
SetterUpdates ==
    {[kind |-> "set", value |-> value, mode |-> mode, text |-> ""] :
        value \in {Replace(v) : v \in {Undefined} \cup Nums} \cup {Compute("retUndef")},
        mode \in Modes}
SignalUpdates ==
    {[kind |-> "signal", value |-> Replace(Undefined), mode |-> "ok", text |-> text] :
        text \in NumTexts \cup {"null"}}
UpdatesOf(o) ==
    SetterUpdates \cup (IF isPersistentKey(obs[T][o].ckey) THEN SignalUpdates ELSE {})

\* the world after update u of the key of observer o, from world w
ApplyUpdate(w, o, u) ==
    IF u.kind = "set"
    THEN setState(w, HandlersOf(T, obs[T]), obs[T][o].ckey, obs[T][o].init,
                  u.value, obs[T][o].rkey, u.mode)
    ELSE dispatchEvent(w, HandlersOf(T, obs[T]),
                       [key |-> getLocalStorageKey(obs[T][o].ckey), newValue |-> u.text])

\* the value update u carries
ValueOf(u) ==
    IF u.kind = "signal" THEN safeJsonParse(u.text)
    ELSE IF u.value.kind = "compute" THEN CallFn(u.value.f, Undefined)
    ELSE u.value.v

\* the observers subscribed to key
SubscribersOf(key) == IF key \in DOMAIN subscriptions[T] THEN subscriptions[T][key] ELSE {}

\* after u1 then u2 on key k: k was broadcast during u1 and again during u2,
\* both Maps hold the value of u2 and every subscriber of k renders it
OrderedAndLast(o, u1, u2) ==
    LET k == obs[T][o].ckey
        w1 == ApplyUpdate(World(T), o, u1)
        w2 == ApplyUpdate(w1, o, u2)
        v2 == ValueOf(u2)
    IN /\ \E a \in Done(w2, "notify", k) : a <= Len(w1.log)
       /\ \E b \in Done(w2, "notify", k) : b > Len(w1.log)
       /\ Entry(w2.ss, k) = <<TRUE, v2>>
       /\ Entry(w2.ca, k) = <<TRUE, v2>>
       /\ \A p \in SubscribersOf(k), m \in Modes :
              RenderOf(w2, p, k, obs[T][p].init, m).ret = v2

\* C13: when updates u1 then u2 are produced for the key k of a mounted
\* observer, by setter calls or by delivered signals, the subscribers of k are
\* notified of u1 before u2, and afterwards the Maps hold the value of u2 and
\* every subscriber of k is returned it.
C13_PerKeyOrder ==
    \A o \in Obs :
        obs[T][o].st = "mounted" =>
            \A u1, u2 \in UpdatesOf(o) : OrderedAndLast(o, u1, u2)

\* The same for updates that carry a value other than undefined, while every
\* observer subscribed to k last rendered k.
OrderThroughCurrentKey ==
    \A o \in Obs :
        (/\ obs[T][o].st = "mounted"
         /\ \A p \in Obs : obs[T][p].ckey = obs[T][o].ckey =>
                              obs[T][p].rkey = obs[T][o].ckey) =>
            \A u1, u2 \in UpdatesOf(o) :
                (ValueOf(u1) # Undefined /\ ValueOf(u2) # Undefined) =>
                    OrderedAndLast(o, u1, u2)

\* the storage events a tab may be handed: for the record of either key, with a
\* number, null, a record, a text that is no JSON, or no new value
Signals ==
    [key : {getLocalStorageKey(k) : k \in Keys},
     newValue : NumTexts \cup {"null", "{}", Malformed, JsNull}]

DeliverOf(w, event) == dispatchEvent(w, HandlersOf(T, obs[T]), event)

\* what every subscriber is returned by a render in world w
Seen(w) ==
    [p \in {q \in Obs : obs[T][q].st = "mounted"} |->
        RenderOf(w, p, obs[T][p].rkey, obs[T][p].init, "ok").ret]

\* C14: in every reachable state, delivering a signal a second time right
\* after the first leaves sharedState, the cache, the durable store and what
\* every subscriber is returned as the first delivery left them.
C14_SignalIdempotent ==
    \A event \in Signals :
        LET w1 == DeliverOf(World(T), event)
            w2 == DeliverOf(w1, event)
        IN /\ w2.ss = w1.ss
           /\ w2.ca = w1.ca
           /\ w2.ls = w1.ls
           /\ Seen(w2) = Seen(w1)

\* C14 witness: a signal is in flight to a tab that has a listener for its
\* key, and its delivery changes both Maps and what a subscriber is returned.
C14_Witness ==
    /\ inbox[T] # <<>>
    /\ listeners[T] # <<>>
    /\ LET w1 == DeliverOf(World(T), Head(inbox[T]))
       IN /\ w1.ss # sharedState[T]
          /\ w1.ca # cache[T]
          /\ Seen(w1) # Seen(World(T))

Unchanged(w) ==
    /\ w.ss = sharedState[T]
    /\ w.ca = cache[T]
    /\ w.ls = localStorage
    /\ w.log = <<>>
    /\ w.out = <<>>
    /\ Seen(w) = Seen(World(T))

\* C15: in every reachable state, a signal for the record of either key whose
\* payload is no JSON changes neither sharedState nor the cache nor the
\* durable store nor what a subscriber is returned, and no callback is
\* invoked; the parse yields undefined where JSON.parse raises.
C15_MalformedDropped ==
    /\ safeJsonParse(Malformed) = Undefined
    /\ \A k \in Keys :
           Unchanged(DeliverOf(World(T), [key |-> getLocalStorageKey(k),
                                          newValue |-> Malformed]))

\* C15 witness: a signal that is no JSON has just been handed to a registered
\* listener of the persistent key, which has an entry in both Maps.
C15_Witness ==
    /\ last = "malformed"
    /\ \E o \in Obs : obs[T][o].st = "mounted" /\ obs[T][o].ckey = KeyP
    /\ listeners[T] # <<>>
    /\ KeyP \in DOMAIN sharedState[T]
    /\ KeyP \in DOMAIN cache[T]

\* a persistent key that no observer of the model uses
KeyQ == <<"@", "q">>

\* C16: in every reachable state, a signal for a persistent key that has no
\* subscriber in the tab, whatever its payload, changes neither Map nor the
\* durable store and invokes no callback.
C16_NoSubscriberNoChange ==
    \A k \in {KeyP, KeyQ} :
        SubscribersOf(k) = {} =>
            \A text \in NumTexts \cup {"null", "{}", Malformed, JsNull} :
                Unchanged(DeliverOf(World(T), [key |-> getLocalStorageKey(k),
                                               newValue |-> text]))

\* C16 witness: the persistent key has an entry in sharedState and no
\* subscriber, and a signal that carries another value for it is in flight.
C16_Witness ==
    /\ SubscribersOf(KeyP) = {}
    /\ KeyP \in DOMAIN sharedState[T]
    /\ inbox[T] # <<>>
    /\ Head(inbox[T]).key = getLocalStorageKey(KeyP)
    /\ safeJsonParse(Head(inbox[T]).newValue) \notin {Undefined, sharedState[T][KeyP]}

Registry == [subs |-> subscriptions[T], ca |-> cache[T]]

NoEmptySet(subs) == \A key \in DOMAIN subs : subs[key] # {}

\* C17: in every reachable state every key of the registry has at least one
\* callback, and so it is after any subscribe and after any unsubscribe; an
\* unsubscribe of the only callback of a key removes the key.
C17_NoEmptySubscriberSet ==
    /\ NoEmptySet(subscriptions[T])
    /\ \A key \in Keys, o \in Obs :
           /\ NoEmptySet(subscribe(subscriptions[T], key, o))
           /\ LET r == unsubscribe(Registry, key, o) IN
              /\ NoEmptySet(r.subs)
              /\ SubscribersOf(key) = {o} => key \notin DOMAIN r.subs

\* C17 witness: each key has one subscriber, so that an unsubscribe empties
\* its Set, and both keys have a cache entry.
C17_Witness ==
    /\ subscriptions[T] = Put(Put(EmptyMap, KeyA, {"o1"}), KeyP, {"o2"})
    /\ DOMAIN cache[T] = Keys

EvictionLeavesSharedState ==
    \A o \in Obs :
        LET k == obs[T][o].ckey IN
        (obs[T][o].st = "mounted" /\ SubscribersOf(k) = {o}) =>
            LET r == unsubscribe(Registry, k, o)
                w == [World(T) EXCEPT !.ca = r.ca]
            IN /\ k \notin DOMAIN r.ca
               /\ k \notin DOMAIN r.subs
               /\ \A j \in Keys \ {k} : Entry(r.ca, j) = Entry(cache[T], j)
               /\ k \in DOMAIN sharedState[T] =>
                      \A i \in InitVals, m \in Modes :
                          useLiteSWR(w, HandlersOf(T, obs[T]), k, i, isHydrated[T], m).ret
                              = sharedState[T][k]

\* C19: once every observer has unsubscribed, a volatile key has no value in
\* memory, and an observer that then mounts with an initial value is returned
\* that initial value.
C19_VolatileCleanup ==
    (\A o \in Obs : obs[T][o].st = "off") =>
        \A k \in Keys :
            ~isPersistentKey(k) =>
                /\ k \notin DOMAIN cache[T]
                /\ k \notin DOMAIN sharedState[T]
                /\ \A o \in Obs, i \in Nums, m \in Modes :
                       RenderOf(World(T), o, k, i, m).ret = i

\* what the observers other than callback may do to the registry of a key
\* between two invocations of callback's unsubscribe function
RegistryOps(callback) == {"subscribe", "unsubscribe"} \X (Obs \ {callback})

ApplyOp(r, key, op) ==
    IF op[1] = "subscribe"
    THEN [subs |-> subscribe(r.subs, key, op[2]), ca |-> r.ca]
    ELSE unsubscribe(r, key, op[2])

Interleavings(r, key, callback) ==
    {r} \cup {ApplyOp(r, key, a) : a \in RegistryOps(callback)}
        \cup {ApplyOp(ApplyOp(r, key, a), key, b) :
                  a \in RegistryOps(callback), b \in RegistryOps(callback)}

\* C20: an unsubscribe function whose callback is no longer registered changes
\* neither the registry nor the cache: in every reachable state, for a callback
\* that is not subscribed to the key, and for a subscribed one on its second
\* invocation, whatever the other observers subscribed or unsubscribed on
\* that key in between.
C20_UnsubscribeIdempotent ==
    \A key \in Keys, o \in Obs :
        /\ o \notin SubscribersOf(key) => unsubscribe(Registry, key, o) = Registry
        /\ \A r \in Interleavings(unsubscribe(Registry, key, o), key, o) :
               unsubscribe(r, key, o) = r

\* C20 witness: two observers are subscribed to one key that has a cache entry,
\* so that the first invocation leaves a Set the second one finds.
C20_Witness ==
    /\ SubscribersOf(KeyA) = Obs
    /\ KeyA \in DOMAIN cache[T]
    /\ unsubscribe(Registry, KeyA, "o1") # Registry
    /\ unsubscribe(unsubscribe(Registry, KeyA, "o1"), KeyA, "o1")
           = unsubscribe(Registry, KeyA, "o1")


\* the first write of sharedState for key in the log of w is followed by a
\* write of the durable store for key, and afterwards the record decodes to
\* the entry of sharedState
WrittenThrough(w, key) ==
    /\ Done(w, "memory", key) # {}
    /\ \E a \in Done(w, "memory", key), b \in Done(w, "store", key) :
           /\ a < b
           /\ \A n \in Done(w, "memory", key) : a <= n
    /\ key \in DOMAIN w.ss
    /\ storageGet(w, key) = w.ss[key]

\* a resolution of key, which has no entry and no usable record, with a
\* working store
FromInitial(key) ==
    /\ isPersistentKey(key)
    /\ key \notin DOMAIN sharedState[T]
    /\ storageGet(World(T), key) = Undefined

\* a setter call on a persistent key with a working store writes through
SetterWritesThrough ==
    \A o \in Obs, value \in Updaters \cup {Replace(v) : v \in Serializable} :
        (/\ obs[T][o].st = "mounted"
         /\ isPersistentKey(obs[T][o].ckey)
         /\ Callable(value, CurrentValueOf(o))) =>
            LET w == SetStateOf(o, value, "ok") IN
            /\ WrittenThrough(w, obs[T][o].ckey)
            /\ w.ss[obs[T][o].ckey] = w.ret

C22_SignalIffStored ==
    \A key \in Keys, value \in Val, mode \in Modes :
        LET w == storageSet(World(T), HandlersOf(T, obs[T]), key, value, mode)
            storageKey == getLocalStorageKey(key)
        IN IF mode = "ok"
           THEN /\ storageKey \in DOMAIN w.ls
                /\ w.sig = <<[key |-> storageKey, newValue |-> w.ls[storageKey]]>>
           ELSE /\ w.sig = <<>>
                /\ w.out = <<>>
                /\ w.ls = localStorage
                /\ w.ss = sharedState[T]
                /\ w.ca = cache[T]

\* The same for the values other than undefined, of which JSON.stringify
\* returns a text.
SignalMatchesRecord ==
    \A key \in Keys, value \in Val \ {Undefined}, mode \in Modes :
        LET w == storageSet(World(T), HandlersOf(T, obs[T]), key, value, mode)
            storageKey == getLocalStorageKey(key)
        IN IF mode = "ok"
           THEN /\ storageKey \in DOMAIN w.ls
                /\ w.ls[storageKey] = safeJsonStringify(value)
                /\ w.sig = <<[key |-> storageKey, newValue |-> w.ls[storageKey]]>>
           ELSE /\ w.sig = <<>>
                /\ w.out = <<>>
                /\ w.ls = localStorage
                /\ w.ss = sharedState[T]
                /\ w.ca = cache[T]


\* C23: createSafeDefault returns the value when it is not undefined,
\* otherwise the initial value when that is not undefined, otherwise {}; and
\* in every reachable state a render of a key returns, in that order, the
\* value the hook's cache layer holds or resolves, the initial value, or {}:
\* {} when no initial value is given and the key has no entry and no record.
C23_SafeDefaultOrder ==
    /\ \A value \in Val, fallbackInitial \in Val :
           createSafeDefault(value, fallbackInitial) =
               IF value # Undefined THEN value
               ELSE IF fallbackInitial # Undefined THEN fallbackInitial
               ELSE EmptyObject
    /\ \A o \in Obs, key \in Keys, i \in Val, mode \in Modes :
           LET data == useLiteSWR(World(T), HandlersOf(T, [obs[T] EXCEPT ![o].rkey = key]),
                                  key, i, isHydrated[T], mode).ret
               ret == RenderOf(World(T), o, key, i, mode).ret
           IN /\ data # Undefined => ret = data
              /\ (data = Undefined /\ i # Undefined) => ret = i
              /\ (data = Undefined /\ i = Undefined) => ret = EmptyObject
              /\ (/\ i = Undefined
                  /\ key \notin DOMAIN sharedState[T]
                  /\ key \notin DOMAIN cache[T]
                  /\ storageGet(World(T), key) = Undefined) => ret = EmptyObject

\* C23 witness: an observer that gave no initial value has rendered the
\* volatile key, which had no entry: the cache holds undefined for it,
\* sharedState nothing, and the hook returns {}.
C23_Witness ==
    \E o \in Obs :
        /\ obs[T][o].st = "rendered"
        /\ obs[T][o].rkey = KeyA
        /\ obs[T][o].init = Undefined
        /\ Entry(cache[T], KeyA) = <<TRUE, Undefined>>
        /\ KeyA \notin DOMAIN sharedState[T]
        /\ RenderOf(World(T), o, KeyA, Undefined, "ok").ret = EmptyObject


\* what the durable store may hold when a volatile key is used: nothing, a
\* record of the persistent key, and records of other scripts under the names
\* the volatile key could be taken for
VolatileStores ==
    {EmptyMap,
     Put(EmptyMap, getLocalStorageKey(KeyP), "1"),
     Put(EmptyMap, KeyA, "1"),
     Put(EmptyMap, LOCALSTORAGE_PREFIX \o KeyA, "1")}

\* the operation op leaves the store of world w alone: no record written or
\* removed, no event for the other tabs or for this window
StoreUntouched(w, op) ==
    /\ op.ls = w.ls
    /\ op.out = <<>>
    /\ op.sig = <<>>
    /\ \A n \in 1..Len(op.log) : op.log[n][1] # "store"

\* the operations op and op2, made over two stores, have the same outcome
SameOutcome(op, op2) ==
    /\ op.ss = op2.ss
    /\ op.ca = op2.ca
    /\ op.ret = op2.ret
    /\ op.notifs = op2.notifs

\* C24: in every reachable state, a resolution, a render, a setter call and a
\* delete on the volatile key leave the durable store as it is, dispatch no
\* event, and have the same outcome whatever the store holds.
C24_VolatileMemoryOnly ==
    \A key \in Keys : ~isPersistentKey(key) =>
        \A ls \in VolatileStores \cup {localStorage}, mode \in Modes :
            LET w == World(T)
                v == [w EXCEPT !.ls = ls]
            IN /\ \A i \in InitVals \cup {Num(1)} :
                      /\ StoreUntouched(v, ResolveOf(v, key, i, mode))
                      /\ SameOutcome(ResolveOf(v, key, i, mode), ResolveOf(w, key, i, mode))
                      /\ \A o \in Obs :
                             /\ StoreUntouched(v, RenderOf(v, o, key, i, mode))
                             /\ SameOutcome(RenderOf(v, o, key, i, mode),
                                            RenderOf(w, o, key, i, mode))
               /\ \A o \in Obs, value \in Updaters :
                      (/\ obs[T][o].st = "mounted"
                       /\ obs[T][o].ckey = key
                       /\ Callable(value, CurrentValueOf(o))) =>
                          LET set(x) == setState(x, HandlersOf(T, obs[T]), key,
                                                 obs[T][o].init, value, obs[T][o].rkey, mode)
                          IN /\ StoreUntouched(v, set(v))
                             /\ SameOutcome(set(v), set(w))
               /\ StoreUntouched(v, delete(v, key))
               /\ SameOutcome(delete(v, key), delete(w, key))

\* C24 witness: an observer of the volatile key has set it to 1 while the
\* durable store holds a record of the persistent key and none of the
\* volatile one.
C24_Witness ==
    /\ \E o \in Obs : obs[T][o].st = "mounted" /\ obs[T][o].ckey = KeyA
    /\ Entry(sharedState[T], KeyA) = <<TRUE, Num(1)>>
    /\ Entry(cache[T], KeyA) = <<TRUE, Num(1)>>
    /\ DOMAIN localStorage = {getLocalStorageKey(KeyP)}


\* delete(key) leaves the entries of the other keys and the records of the
\* other storage keys of world w as they are
OthersKept(w, d, key) ==
    /\ \A j \in Keys \ {key} :
           /\ Entry(d.ss, j) = Entry(w.ss, j)
           /\ Entry(d.ca, j) = Entry(w.ca, j)
    /\ \A sk \in (DOMAIN w.ls \cup DOMAIN d.ls) \ {getLocalStorageKey(key)} :
           Entry(d.ls, sk) = Entry(w.ls, sk)

\* C25: in every reachable state, after sharedStateUtils.delete(k) the key k
\* has no entry in sharedState and, when k is persistent, no durable record; a
\* render of k with initial value i, by any observer, mounted or new, then
\* returns i; the other keys are as before.
C25_DeleteResets ==
    \A k \in Keys :
        LET d == delete(World(T), k) IN
        /\ k \notin DOMAIN d.ss
        /\ isPersistentKey(k) => getLocalStorageKey(k) \notin DOMAIN d.ls
        /\ \A o \in Obs, i \in Nums : RenderOf(d, o, k, i, "ok").ret = i
        /\ OthersKept(World(T), d, k)

\* What delete does reset: the entry of sharedState and the durable record, so
\* that a resolution by the state module yields the initial value.
DeleteResetsSharedState ==
    \A k \in Keys :
        LET d == delete(World(T), k) IN
        /\ k \notin DOMAIN d.ss
        /\ d.ca = cache[T]
        /\ isPersistentKey(k) => getLocalStorageKey(k) \notin DOMAIN d.ls
        /\ \A i \in Nums, mode \in Modes : ResolveOf(d, k, i, mode).ret = i
        /\ OthersKept(World(T), d, k)


\* the store of the state with a record of another script and with a record
\* under the namespace that no observer uses
ClearStores ==
    {localStorage,
     Put(localStorage, OtherKey, "1"),
     Put(Put(localStorage, OtherKey, "1"), getLocalStorageKey(KeyQ), "0")}

\* what clear does to the durable store: nothing, or with includePersistent
\* the removal of exactly the records under the namespace
ClearStoreFrame(w, c, includePersistent) ==
    IF includePersistent
    THEN /\ DOMAIN c.ls = {sk \in DOMAIN w.ls : ~StartsWith(sk, LOCALSTORAGE_PREFIX)}
         /\ \A sk \in DOMAIN c.ls : c.ls[sk] = w.ls[sk]
    ELSE c.ls = w.ls /\ c.out = <<>>

ClearEmptiesSharedState ==
    \A ls \in ClearStores, includePersistent \in BOOLEAN :
        LET w == [World(T) EXCEPT !.ls = ls] IN
        \A keys \in getPersistentKeysFromStorage(ls) :
            LET c == clear(w, includePersistent, keys) IN
            /\ c.ss = EmptyMap
            /\ c.ca = cache[T]
            /\ ClearStoreFrame(w, c, includePersistent)


\* the orders in which forEach may visit the callbacks of a Set
Enumerations(S) ==
    {order \in [1..Cardinality(S) -> S] :
        \A m, n \in 1..Cardinality(S) : m # n => order[m] # order[n]}

\* which callbacks issue an update of the key when they are invoked, and the
\* value they write: none, or some of the subscribers
Reactions(S) == UNION {[R -> Nums] : R \in SUBSET S}

\* a mutate of key with newData, when no notify is in progress
MutateRun(key, order, react, newData) ==
    mutateCalls([ca |-> cache[T], calls |-> <<>>, depth |-> 0, react |-> react],
                key, order, newData)

\* C27: in every reachable state, whatever the subscribers of a key do when
\* they are invoked, a mutate of the key invokes no callback of the key while
\* another notify of the key is in progress: every callback is invoked with
\* one notify on the stack.
C27_NoReentrantNotify ==
    \A key \in DOMAIN subscriptions[T] :
        \A order \in Enumerations(subscriptions[T][key]),
           react \in Reactions(subscriptions[T][key]), v \in Nums :
            LET n == MutateRun(key, order, react, v) IN
            \A c \in 1..Len(n.calls) : n.calls[c].depth = 1

\* When no callback issues an update, every callback of the key is invoked
\* once, with one notify on the stack.
NotifyAloneIsFlat ==
    \A key \in DOMAIN subscriptions[T] :
        \A order \in Enumerations(subscriptions[T][key]), v \in Nums :
            LET n == MutateRun(key, order, EmptyMap, v) IN
            /\ Len(n.calls) = Cardinality(subscriptions[T][key])
            /\ \A c \in 1..Len(n.calls) : n.calls[c].depth = 1
            /\ n.depth = 0


\* after the setter call that led from the state to w, the key k holds v
\* everywhere: in sharedState, in what each subscriber of k is returned and,
\* when the durable write was made, in the decoded record
HoldsEverywhere(w, k, v, mode) ==
    /\ Entry(w.ss, k) = <<TRUE, v>>
    /\ \A p \in SubscribersOf(k), m \in Modes :
           RenderOf(w, p, k, obs[T][p].init, m).ret = v
    /\ (isPersistentKey(k) /\ mode = "ok") => storageGet(w, k) = v

\* the world w is the one of the state: no write, no event, no notification
NothingDone(w) ==
    /\ w.ss = sharedState[T]
    /\ w.ca = cache[T]
    /\ w.ls = localStorage
    /\ w.log = <<>>
    /\ w.out = <<>>
    /\ w.sig = <<>>

\* C28: when a setter call of a mounted observer returns, sharedState, what
\* every subscriber of the key is returned and, for a persistent key whose
\* write succeeded, the decoded record all hold the new value; when the
\* updater raises, nothing has changed.
C28_NoTornState ==
    \A o \in Obs, value \in Updaters \cup {Compute("raise")}, mode \in Modes :
        (obs[T][o].st = "mounted" /\ Callable(value, CurrentValueOf(o))) =>
            LET w == SetStateOf(o, value, mode) IN
            IF Raises(value) THEN NothingDone(w)
            ELSE HoldsEverywhere(w, obs[T][o].ckey, w.ret, mode)

\* The same for a new value other than undefined, while every observer
\* subscribed to the key last rendered that key.
NoTornStateThroughCurrentKey ==
    \A o \in Obs, value \in Updaters \cup {Compute("raise")}, mode \in Modes :
        (/\ obs[T][o].st = "mounted"
         /\ \A p \in Obs : obs[T][p].ckey = obs[T][o].ckey =>
                              obs[T][p].rkey = obs[T][o].ckey
         /\ Callable(value, CurrentValueOf(o))) =>
            LET w == SetStateOf(o, value, mode) IN
            IF Raises(value) THEN NothingDone(w)
            ELSE w.ret # Undefined => HoldsEverywhere(w, obs[T][o].ckey, w.ret, mode)


\* the setter calls of a run: up to two, each by an observer of the key
CallSeqs(k) ==
    LET callers == {o \in Obs : obs[T][o].st = "mounted" /\ obs[T][o].ckey = k}
    IN {<<o>> : o \in callers} \cup {<<o, p>> : o \in callers, p \in callers}

\* every subscriber of k is returned v by a render in world w
AllSee(w, k, v) ==
    \A p \in SubscribersOf(k) : RenderOf(w, p, k, obs[T][p].init, "ok").ret = v

\* the observers of calls call their setters with prev => prev + 1, one after
\* the other and with no render in between, from world w: each updater is
\* handed expected, the number the key stands at, and at the end sharedState
\* holds the number reached and every subscriber is returned it
RECURSIVE IncChain(_, _, _, _, _)
IncChain(w, k, calls, expected, mode) ==
    IF calls = <<>>
    THEN Entry(w.ss, k) = <<TRUE, expected>> /\ AllSee(w, k, expected)
    ELSE LET o == Head(calls) IN
         /\ createSafeDefault(MapGet(w.ss, k), obs[T][o].init) = expected
         /\ IncChain(setState(w, HandlersOf(T, obs[T]), k, obs[T][o].init,
                              Compute("inc"), obs[T][o].rkey, mode),
                     k, Tail(calls), Num(expected.n + 1), mode)

\* C29: in every reachable state in which the subscribers of a key are
\* returned the number c, n calls of setter(prev => prev + 1) by observers of
\* the key, in any mix and with no render in between, hand each updater the
\* number the key stands at and leave the key at c + n, for n up to 2.
C29_UpdaterSeesCurrent ==
    \A k \in DOMAIN subscriptions[T], c \in Nums, mode \in Modes :
        AllSee(World(T), k, c) =>
            \A calls \in CallSeqs(k) : IncChain(World(T), k, calls, c, mode)

\* The same while sharedState holds for the key the number its subscribers
\* are returned and every observer subscribed to the key last rendered it.
UpdaterSeesCurrentThroughCurrentKey ==
    \A k \in DOMAIN subscriptions[T], c \in Nums, mode \in Modes :
        (/\ AllSee(World(T), k, c)
         /\ Entry(sharedState[T], k) = <<TRUE, c>>
         /\ \A p \in Obs : obs[T][p].ckey = k => obs[T][p].rkey = k) =>
            \A calls \in CallSeqs(k) : IncChain(World(T), k, calls, c, mode)


\* the resolution r, made in world w, took the fast path: it returns the entry
\* of sharedState and does nothing else
FastPath(w, r, key) ==
    /\ r.ret = w.ss[key]
    /\ r.ss = w.ss
    /\ r.ca = w.ca
    /\ r.ls = w.ls
    /\ r.out = <<>>
    /\ r.sig = <<>>
    /\ r.notifs = <<>>
    /\ r.log = <<>>

\* C30: in every reachable state, for a key that has an entry in sharedState,
\* getFromMemoryOrStorage returns that entry whatever the initial value, the
\* contents and the behaviour of the durable store and the state of the gate,
\* and changes neither Map nor the store and dispatches no event; so does the
\* resolution of the state module that has no gate.
C30_FastPath ==
    \A key \in DOMAIN sharedState[T] :
        \A i \in InitVals \cup {Num(1)}, ls \in StoreContents \cup {localStorage},
           hydrated \in BOOLEAN, mode \in Modes :
            LET w == [World(T) EXCEPT !.ls = ls]
                hs == HandlersOf(T, obs[T])
            IN /\ FastPath(w, getFromMemoryOrStorage(w, hs, key, i, hydrated, mode), key)
               /\ FastPath(w, getFromMemoryOrStorageUngated(w, hs, key, i, hydrated, mode),
                           key)

\* C30 witness: the gate is ready, sharedState holds 0 for the persistent key
\* while its record decodes to 1, and a resolution with initial value 1
\* returns 0.
C30_Witness ==
    /\ isHydrated[T]
    /\ Entry(sharedState[T], KeyP) = <<TRUE, Num(0)>>
    /\ storageGet(World(T), KeyP) = Num(1)
    /\ ResolveOf(World(T), KeyP, Num(1), "ok").ret = Num(0)


\* the callbacks a call of onHydrated with callback invokes before it returns
InvokedBy(callback) ==
    IF callback.reg # 0 THEN <<callback.id, callback.reg>> ELSE <<callback.id>>

\* C31: the gate never goes from ready back to pending; after every step that
\* leaves it ready the queue of deferred callbacks is empty; and while it is
\* ready, onHydrated invokes its callback (and what that callback registers)
\* before it returns and queues nothing.
C31_GateMonotonic ==
    [][/\ isHydrated[T] => isHydrated'[T]
       /\ isHydrated'[T] => hydrationCallbacks'[T] = <<>>
       /\ isHydrated[T] =>
              \A callback \in Callbacks :
                  LET g == onHydrated(Gate(T), callback) IN
                  /\ g.hyd
                  /\ g.q = <<>>
                  /\ g.log = hydrationLog[T] \o InvokedBy(callback)]_vars

\* C31 witness: the gate is ready, the queue is empty, a callback registered
\* while the gate was pending and one registered after it became ready have
\* both been invoked.
C31_Witness ==
    /\ isHydrated[T]
    /\ hydrationCallbacks[T] = <<>>
    /\ \E m \in PendingRegs : InvokedAt(registered[T][m].id) # {}
    /\ \E n \in ReadyRegs : InvokedAt(registered[T][n].id) # {}


\* persistent keys: the sentinel followed by up to two characters, the
\* sentinel and the characters of the namespace among them
KeyChars == {"@", "p", "s"}
PersistentKeys ==
    {PERSISTENT_KEY_PREFIX} \cup {PERSISTENT_KEY_PREFIX \o <<a>> : a \in KeyChars}
        \cup {PERSISTENT_KEY_PREFIX \o <<a, b>> : a \in KeyChars, b \in KeyChars}

\* the handler of an observer of key, handed a well-formed event for the
\* record of written, writes sharedState
HandlerTakes(key, written) ==
    handleStorageChange(World(T), [key |-> key, mkey |-> key],
                        [key |-> getLocalStorageKey(written), newValue |-> "1"]).log # <<>>

\* C32: a persistent key @x is stored under shared@x; two persistent keys
\* have two storage keys; the key that getPersistentKeysFromStorage makes of
\* a storage key is the key that was written, and a storage listener takes
\* the event of a record exactly when the record is the one of its key; in
\* every reachable state the records under the namespace are recovered as the
\* keys they were written for.
C32_NamespaceReversible ==
    /\ \A key \in PersistentKeys :
           /\ getLocalStorageKey(key) = LOCALSTORAGE_PREFIX \o Slice(key, 1)
           /\ getPersistentKeysFromStorage(Put(EmptyMap, getLocalStorageKey(key), "1"))
                  = {<<key>>}
           /\ \A other \in PersistentKeys :
                  /\ other # key => getLocalStorageKey(other) # getLocalStorageKey(key)
                  /\ HandlerTakes(key, other) <=> other = key
    /\ \A keys \in getPersistentKeysFromStorage(localStorage) :
           /\ Len(keys) = Cardinality({sk \in DOMAIN localStorage :
                                          StartsWith(sk, LOCALSTORAGE_PREFIX)})
           /\ \A n \in 1..Len(keys) :
                  /\ isPersistentKey(keys[n])
                  /\ keys[n] \in Keys
                  /\ getLocalStorageKey(keys[n]) \in DOMAIN localStorage

\* C32 witness: an observer of the persistent key has written its record, the
\* only one of the store, and its listener is registered; the record is
\* recovered as the key.
C32_Witness ==
    /\ \E o \in Obs : /\ obs[T][o].st = "mounted"
                      /\ obs[T][o].ckey = KeyP
                      /\ Len(listeners[T]) > 0
    /\ DOMAIN localStorage = {LOCALSTORAGE_PREFIX \o <<"p">>}
    /\ storageGet(World(T), KeyP) = sharedState[T][KeyP]
    /\ getPersistentKeysFromStorage(localStorage) = {<<KeyP>>}



\* the two in-memory stores hold the same value for every key that has a
\* subscriber, in world w with the registry subs
Agree(w, subs) ==
    \A k \in Keys :
        (k \in DOMAIN subs /\ subs[k] # {}) => MapGet(w.ca, k) = MapGet(w.ss, k)

\* C33 (as claimed): after every operation, for every key that has a
\* subscriber, the value the lite-SWR cache holds for the key is the value
\* sharedState holds for it; so it is after the setter of an observer of a
\* persistent key is called with a value that JSON.stringify raises on.
C33_StoresAgree ==
    /\ Agree(World(T), subscriptions[T])
    /\ \A o \in Obs :
           (/\ obs[T][o].st = "mounted"
            /\ obs[T][o].rkey = obs[T][o].ckey
            /\ isPersistentKey(obs[T][o].ckey)) =>
               Agree(SetStateOf(o, Replace(Circular), "ok"), subscriptions[T])

\* every setter and every storage listener of the tab writes the cache under
\* the key it closed over
AllCurrent ==
    \A o \in Obs : obs[T][o].st = "mounted" => obs[T][o].rkey = obs[T][o].ckey

\* What holds of C33: in a state where the two stores agree and every
\* observer last rendered the key of its effects, they agree after a setter
\* call with a value that serializes (undefined included), whatever the store
\* does, after a delivered signal, and after an observer unsubscribes.
AgreementKeptThroughCurrentKey ==
    (AllCurrent /\ Agree(World(T), subscriptions[T])) =>
        /\ \A o \in Obs, value \in Updaters, mode \in Modes :
               (obs[T][o].st = "mounted" /\ Callable(value, CurrentValueOf(o))) =>
                   Agree(SetStateOf(o, value, mode), subscriptions[T])
        /\ \A event \in Signals :
               Agree(DeliverOf(World(T), event), subscriptions[T])
        /\ \A o \in Obs :
               obs[T][o].st = "mounted" =>
                   LET r == unsubscribe(Registry, obs[T][o].ckey, o)
                   IN Agree([World(T) EXCEPT !.ca = r.ca], r.subs)


\* the call chain of world w wrote, in sharedState and in the cache, the key
\* key and no other
WritesOnly(w, key) ==
    \A k \in Keys \ {key} :
        /\ Done(w, "memory", k) = {}
        /\ Done(w, "cache", k) = {}
        /\ Entry(w.ss, k) = Entry(sharedState[T], k)
        /\ Entry(w.ca, k) = Entry(cache[T], k)

\* C34 (as claimed): the setter and the storage listener of the render whose
\* effects ran with key a write only key a, in sharedState and in the cache,
\* also when the observer has rendered with another key since.
C34_ClosureWritesOwnKey ==
    \A o \in Obs :
        obs[T][o].st = "mounted" =>
            LET a == obs[T][o].ckey IN
            /\ \A value \in {Replace(Num(1)), Compute("inc")}, mode \in Modes :
                   Callable(value, CurrentValueOf(o)) =>
                       WritesOnly(SetStateOf(o, value, mode), a)
            /\ \A text \in NumTexts :
                   WritesOnly(DeliverOf(World(T), [key |-> getLocalStorageKey(a),
                                                   newValue |-> text]), a)

\* What holds of C34: while every observer of the tab last rendered the key
\* its effects ran with, its setter and its storage listener write that key
\* and no other, and they do write it in both stores.
WritesOwnKeyWhileCurrent ==
    AllCurrent =>
        \A o \in Obs :
            obs[T][o].st = "mounted" =>
                LET a == obs[T][o].ckey
                    w == SetStateOf(o, Replace(Num(1)), "ok")
                    d == DeliverOf(World(T), [key |-> getLocalStorageKey(a),
                                              newValue |-> "1"])
                IN /\ WritesOnly(w, a)
                   /\ Done(w, "memory", a) # {} /\ Done(w, "cache", a) # {}
                   /\ WritesOnly(d, a)
                   /\ isPersistentKey(a) =>
                          Done(d, "memory", a) # {} /\ Done(d, "cache", a) # {}


\* the effects of every render have run: no observer has rendered without
\* its effects, none has rendered a key other than the key of its effects
Settled ==
    \A o \in Obs :
        \/ obs[T][o].st = "off"
        \/ obs[T][o].st = "mounted" /\ obs[T][o].rkey = obs[T][o].ckey

\* the mounted observers that use key
Using(key) == {o \in Obs : obs[T][o].st = "mounted" /\ obs[T][o].rkey = key}

\* liteSWRDebug.getSubscriberCount on the registry subs
getSubscriberCount(subs, key) ==
    IF key \in DOMAIN subs THEN Cardinality(subs[key]) ELSE 0

\* C35: once the effects have settled, every mounted observer is subscribed
\* under its current key and under no other key, and for every key the size
\* of the subscriber set is the number of mounted observers that use the key;
\* an effect that is invoked twice (its cleanup, then the effect again, as in
\* strict mode) leaves the registry as the first invocation left it.
C35_OneSubscriptionPerObserver ==
    Settled =>
        /\ \A o \in Obs, k \in DOMAIN subscriptions[T] :
               o \in subscriptions[T][k] <=>
                   obs[T][o].st = "mounted" /\ obs[T][o].rkey = k
        /\ \A k \in Keys :
               getSubscriberCount(subscriptions[T], k) = Cardinality(Using(k))
        /\ \A o \in Obs :
               obs[T][o].st = "mounted" =>
                   LET k == obs[T][o].ckey
                       cleaned == unsubscribe(Registry, k, o)
                       again == subscribe(cleaned.subs, k, o)
                   IN /\ k \in DOMAIN cleaned.subs => o \notin cleaned.subs[k]
                      /\ again = subscriptions[T]

\* C35 witness: the effects have settled with both observers mounted on the
\* volatile key, two subscribers counted for it and none for the persistent
\* key, which an observer used before (sharedState still holds its entry).
C35_Witness ==
    /\ Settled
    /\ Using(KeyA) = Obs
    /\ getSubscriberCount(subscriptions[T], KeyA) = 2
    /\ getSubscriberCount(subscriptions[T], KeyP) = 0
    /\ KeyP \in DOMAIN sharedState[T]


\* the tab over the durable store ls, and what its store may hold instead
WorldOver(ls) == [World(T) EXCEPT !.ls = ls]
StoresOf == StoreContents \cup {localStorage}

\* a resolution of key with initial value i over the store ls writes the
\* store only when the store holds no decodable record of key and there is an
\* initial value, and then it writes the initial value
NoOverwrite(key, i, mode, ls) ==
    LET stored == storageGet(WorldOver(ls), key)
        r == ResolveOf(WorldOver(ls), key, i, mode)
    IN /\ stored # Undefined => r.ls = ls /\ Done(r, "store", key) = {}
       /\ Done(r, "store", key) # {} =>
              /\ stored = Undefined
              /\ i # Undefined
              /\ r.ls = Put(ls, getLocalStorageKey(key), safeJsonStringify(i))
       /\ \A k \in DOMAIN r.ls : k # getLocalStorageKey(key) => Entry(ls, k) = Entry(r.ls, k)

\* the store ls holds a decodable record of key that the tab has not read or
\* written: the first render of the key by an observer hands the record to
\* the updater of its setter, and an increment stores the record plus one
UpdatesFromRecord(key, i, mode, ls) ==
    LET stored == storageGet(WorldOver(ls), key) IN
    (/\ stored # Undefined
     /\ key \notin DOMAIN sharedState[T]
     /\ key \notin DOMAIN cache[T]) =>
        \A o \in Obs :
            obs[T][o].st = "off" =>
                LET h == RenderOf(WorldOver(ls), o, key, i, mode)
                    s == setState(h, HandlersOf(T, obs[T]), key, i, Compute("inc"),
                                  key, "ok")
                IN /\ createSafeDefault(MapGet(h.ss, key), i) = stored
                   /\ stored.t = "number" =>
                          /\ s.ss[key] = Num(stored.n + 1)
                          /\ storageGet(s, key) = Num(stored.n + 1)

\* C36 (as claimed): a resolution never replaces a decodable durable record
\* by an initial value, it writes the initial value through only when the
\* store holds no decodable record, and a functional update of a key whose
\* record an earlier session wrote is computed from that record.
C36_RecordNotShadowed ==
    \A key \in Keys, i \in InitVals, mode \in Modes, ls \in StoresOf :
        isPersistentKey(key) =>
            /\ NoOverwrite(key, i, mode, ls)
            /\ UpdatesFromRecord(key, i, mode, ls)

\* What holds of C36: the resolution itself never replaces a decodable
\* record, whatever the gate; once the gate is ready, the functional update
\* is computed from the record of the earlier session.
RecordNotShadowedOnceReady ==
    \A key \in Keys, i \in InitVals, mode \in Modes, ls \in StoresOf :
        isPersistentKey(key) =>
            /\ NoOverwrite(key, i, mode, ls)
            /\ isHydrated[T] => UpdatesFromRecord(key, i, mode, ls)

====
